---- MODULE Spec2Model ----
(***************************************************************************)
(* Model of xtop_delegate_usdt_contract::execute, the precompiled USDT     *)
(* token contract (xdelegate_usdt_contract.cpp).                           *)
(*                                                                         *)
(* One call of execute is one action.  The out-parameters `output` and     *)
(* `err` and the return value are state, so that the outcome of the last   *)
(* call can be inspected; `pre` keeps the ledger as it was when the call   *)
(* started.  The host hands every call fresh out-parameters (host_consume).*)
(*                                                                         *)
(* The ledger behind state_ctx (xunit_bstate: balances, allowances, the    *)
(* owner and the controller) and the ABI decoder are not part of           *)
(* xdelegate_usdt_contract.cpp; they are modelled from the specification.  *)
(***************************************************************************)
EXTENDS Integers, Sequences, FiniteSets, TLC

(***************************************************************************)
(* Bounds of the model.                                                    *)
(***************************************************************************)
\* Largest amount a call names.
MaxAmt == 2
\* Number of execute calls in one behaviour.
MaxCalls == 2

(***************************************************************************)
(* Addresses.  An xeth_address_t is 20 bytes; the model has three of them, *)
(* the 20-byte big-endian encodings of 0, 1 and 2.  0 is                   *)
(* xeth_address_t::zero().                                                 *)
(***************************************************************************)
Addr == {0, 1, 2}

\* xeth_address_t::zero()
eth_zero == 0

\* Accounts that sign transactions: the zero address has no key.
Callers == Addr \ {eth_zero}

\* common::xaccount_address_t::build_from(eth_address, secp256k1_evm_user_account):
\* the native account address is the "T60004" prefix followed by the 20 bytes.
account_build_from(eth) == <<"T60004", eth>>

\* common::xeth_address_t::build_from(account_address): drops the prefix.
eth_build_from(account) == account[2]

Accounts == {account_build_from(a) : a \in Addr}

\* context.address, the contract address the host passes.
evm_usdt_contract_address == "evm_usdt_contract"

(***************************************************************************)
(* Byte strings.                                                           *)
(***************************************************************************)
\* xbytes_t result(32, 0)
zero_word == [i \in 1..32 |-> 0]

\* result[31] = 1 on xbytes_t result(32, 0)
one_word == [i \in 1..32 |-> IF i = 32 THEN 1 ELSE 0]

\* top::to_bytes(evm_common::u256): 32 bytes, big endian.  The model's
\* amounts are below 256^3, so only the last three bytes can be non-zero.
to_bytes(v) ==
    [i \in 1..32 |->
        IF i = 32 THEN v % 256
        ELSE IF i = 31 THEN (v \div 256) % 256
        ELSE IF i = 30 THEN (v \div 65536) % 256
        ELSE 0]

\* xeth_address_t::to_h256(): the 20 address bytes left-padded to 32 bytes.
to_h256(eth) ==
    [i \in 1..32 |-> IF i <= 12 THEN 0 ELSE IF i = 32 THEN eth % 256 ELSE 0]

\* evm_common::u256 supply{"45257057549529550000000000000"} as to_bytes gives it
\* (0x923bc2b5c66b1c834ce2e000).
total_supply_bytes ==
    [i \in 1..32 |->
        IF i <= 20 THEN 0
        ELSE <<146, 59, 194, 181, 198, 107, 28, 131, 76, 226, 224, 0>>[i - 20]]

(***************************************************************************)
(* Gas table.                                                              *)
(***************************************************************************)
total_supply_gas_cost == 2538
balance_of_gas_cost == 3268
transfer_gas_cost == 18446
transfer_reverted_gas_cost == 3662
transfer_from_gas_cost == 18190
transfer_from_reverted_gas_cost == 4326
approve_gas_cost == 18599
allowance_gas_cost == 3987
mint_gas_cost == 3155
burn_gas_cost == 3155
transfer_ownership_gas_cost == 3155
set_controller_gas_cost == 3155

(***************************************************************************)
(* Method selectors (function_selector.method_id) and chain tags.          *)
(***************************************************************************)
MethodIds ==
    {"decimals", "totalSupply", "balanceOf", "transfer", "transferFrom",
     "approve", "allowance", "mint", "burnFrom", "transferOwnership",
     "setController", "owner", "controller"}

\* common::xchain_uuid_t::eth and one other chain tag.
chain_uuid_eth == "eth"
ChainUuids == {"eth", "other"}

(***************************************************************************)
(* ABI decoder (xabi_decoder_t), modelled from the specification: the      *)
(* parameters are a sequence of 32-byte words, a word is a number.  A word *)
(* decodes as an address when its 12 high bytes are zero, that is when it  *)
(* is one of Addr; BadAddrWord stands for the words that do not.           *)
(***************************************************************************)
BadAddrWord == 3

\* abi_decoder.extract<common::xeth_address_t>(ec) sets ec
extract_address_fails(word) == word \notin Addr

(***************************************************************************)
(* The ledger (the unit states behind state_ctx), modelled from the        *)
(* specification.  A ledger is a record                                    *)
(*   balance    : account -> amount        tep_token_balance(usdt)         *)
(*   allowance  : owner -> spender -> amount                               *)
(*   owner, controller : account           of the contract's own account   *)
(* Every operation that reports through std::error_code returns            *)
(* [ec |-> failed, st |-> ledger after].                                   *)
(***************************************************************************)
\* state->tep_token_balance(common::xtoken_id_t::usdt)
tep_token_balance(st, account) == st.balance[account]

\* state->tep_token_deposit(usdt, value): credits the account.
tep_token_deposit(st, account, value) ==
    [st EXCEPT !.balance[account] = @ + value]

\* state->tep_token_withdraw(usdt, value): debits the account; a withdrawal
\* above the balance fails and leaves the balance as it is (no underflow).
\* It has no error_code parameter.
tep_token_withdraw(st, account, value) ==
    IF st.balance[account] < value THEN st
    ELSE [st EXCEPT !.balance[account] = @ - value]

\* sender_state->transfer(usdt, recver_state, value, ec): withdraw from the
\* sender, then deposit to the receiver; fails on insufficient balance.
ledger_transfer(st, from, to, value) ==
    IF st.balance[from] < value
    THEN [ec |-> TRUE, st |-> st]
    ELSE [ec |-> FALSE,
          st |-> tep_token_deposit(tep_token_withdraw(st, from, value), to, value)]

\* owner_state->update_allowance(usdt, spender, value, decrease, ec)
update_allowance_decrease(st, owner, spender, value) ==
    IF st.allowance[owner][spender] < value
    THEN [ec |-> TRUE, st |-> st]
    ELSE [ec |-> FALSE, st |-> [st EXCEPT !.allowance[owner][spender] = @ - value]]

\* owner_state->update_allowance(usdt, spender, value, increase, ec)
update_allowance_increase(st, owner, spender, value) ==
    [ec |-> FALSE, st |-> [st EXCEPT !.allowance[owner][spender] = @ + value]]

\* sender_state->approve(usdt, spender, amount, ec); wfail: the write of the
\* property fails.
ledger_approve(st, owner, spender, amount, wfail) ==
    IF wfail
    THEN [ec |-> TRUE, st |-> st]
    ELSE [ec |-> FALSE, st |-> [st EXCEPT !.allowance[owner][spender] = amount]]

\* owner_state->allowance(usdt, spender, ec)
ledger_allowance(st, owner, spender) == st.allowance[owner][spender]

\* contract_state->tep_token_owner(chain_uuid)
tep_token_owner(st) == st.owner

\* contract_state->tep_token_controller(chain_uuid)
tep_token_controller(st) == st.controller

\* contract_state->tep_token_owner(chain_uuid, new_owner, ec)
set_tep_token_owner(st, new_owner, wfail) ==
    IF wfail
    THEN [ec |-> TRUE, st |-> st]
    ELSE [ec |-> FALSE, st |-> [st EXCEPT !.owner = new_owner]]

\* contract_state->tep_token_controller(chain_uuid, new_controller, ec)
set_tep_token_controller(st, new_controller, wfail) ==
    IF wfail
    THEN [ec |-> TRUE, st |-> st]
    ELSE [ec |-> FALSE, st |-> [st EXCEPT !.controller = new_controller]]

(***************************************************************************)
(* Outcomes.  execute returns a bool and fills one of two out-parameters:  *)
(*   output : sys_contract_precompile_output {exit_status, cost, output,   *)
(*            logs}                                                        *)
(*   err    : sys_contract_precompile_error {fail_status, minor_status,    *)
(*            cost, output}                                                *)
(* A result of a handler is [ret, output, err, st].                        *)
(***************************************************************************)
\* The out-parameters as the host passes them in.
fresh_output == [exit_status |-> "unset", cost |-> 0, output |-> <<>>, logs |-> <<>>]
fresh_err == [fail_status |-> "unset", minor_status |-> "unset", cost |-> 0, output |-> <<>>]

\* err.fail_status = Fatal; err.minor_status = minor; return false
fatal(st, minor) ==
    [ret |-> FALSE, output |-> fresh_output,
     err |-> [fresh_err EXCEPT !.fail_status = "Fatal", !.minor_status = minor],
     st |-> st]

\* err.fail_status = Error; err.minor_status = OutOfGas; return false
out_of_gas(st) ==
    [ret |-> FALSE, output |-> fresh_output,
     err |-> [fresh_err EXCEPT !.fail_status = "Error", !.minor_status = "OutOfGas"],
     st |-> st]

\* err.fail_status = Revert; err.minor_status = Reverted; err.cost = cost;
\* err.output = result; the handler then returns ret
reverted(st, cost, result, ret) ==
    [ret |-> ret, output |-> fresh_output,
     err |-> [fail_status |-> "Revert", minor_status |-> "Reverted",
              cost |-> cost, output |-> result],
     st |-> st]

\* output.cost = 0; output.exit_status = Returned; output.output = bytes;
\* output.logs.push_back(log) for each log; return true
returned(st, bytes, logs) ==
    [ret |-> TRUE,
     output |-> [exit_status |-> "Returned", cost |-> 0, output |-> bytes, logs |-> logs],
     err |-> fresh_err,
     st |-> st]

\* evm_common::xevm_log_t log(contract_address, topics, data)
xevm_log(address, topics, data) == [address |-> address, topics |-> topics, data |-> data]

(***************************************************************************)
(* The handlers of execute's switch.  Each takes the ledger st, the call   *)
(* context (caller, address), is_static, target_gas, the parameter words   *)
(* left in abi_decoder after the selector, and wfail (whether a property   *)
(* write of the ledger fails during this call).                            *)
(***************************************************************************)
\* exec_decimals with a gas check in front, as totalSupply has.
exec_decimals_gas_checked(st, context, is_static, target_gas, abi_decoder, wfail) ==
    IF target_gas < total_supply_gas_cost THEN out_of_gas(st)
    ELSE returned(st, to_bytes(18), <<>>)

\* case method_id_decimals
exec_decimals(st, context, is_static, target_gas, abi_decoder, wfail) ==
    returned(st, to_bytes(18), <<>>)

\* exec_total_supply returning the sum of the ledger's balances instead of
\* the constant.
exec_total_supply_from_ledger(st, context, is_static, target_gas, abi_decoder, wfail) ==
    IF target_gas < total_supply_gas_cost THEN out_of_gas(st)
    ELSE IF Len(abi_decoder) # 0 THEN fatal(st, "Other")
    ELSE returned(st,
                  to_bytes(tep_token_balance(st, account_build_from(0))
                           + tep_token_balance(st, account_build_from(1))
                           + tep_token_balance(st, account_build_from(2))),
                  <<>>)

\* case method_id_total_supply
exec_total_supply(st, context, is_static, target_gas, abi_decoder, wfail) ==
    IF target_gas < total_supply_gas_cost THEN out_of_gas(st)
    ELSE IF Len(abi_decoder) # 0 THEN fatal(st, "Other")
    ELSE returned(st, total_supply_bytes, <<>>)

\* exec_balance_of loading the unit state of the caller instead of the one
\* of the decoded address.
exec_balance_of_caller(st, context, is_static, target_gas, abi_decoder, wfail) ==
    IF target_gas < balance_of_gas_cost THEN out_of_gas(st)
    ELSE IF Len(abi_decoder) # 1 THEN fatal(st, "Other")
    ELSE IF extract_address_fails(abi_decoder[1]) THEN fatal(st, "Other")
    ELSE returned(st,
                  to_bytes(tep_token_balance(st, account_build_from(context.caller))),
                  <<>>)

\* case method_id_balance_of
exec_balance_of(st, context, is_static, target_gas, abi_decoder, wfail) ==
    IF target_gas < balance_of_gas_cost THEN out_of_gas(st)
    ELSE IF Len(abi_decoder) # 1 THEN fatal(st, "Other")
    ELSE IF extract_address_fails(abi_decoder[1]) THEN fatal(st, "Other")
    ELSE returned(st,
                  to_bytes(tep_token_balance(st, account_build_from(abi_decoder[1]))),
                  <<>>)

\* transfer_body with sender and receiver exchanged in the ledger transfer.
transfer_body_reversed(st, context, recipient_address, value) ==
    LET r == ledger_transfer(st, account_build_from(recipient_address),
                             account_build_from(context.caller), value)
    IN  IF ~r.ec
        THEN returned(r.st, one_word,
                      <<xevm_log(context.address,
                                 <<"event_hex_string_transfer",
                                   to_h256(context.caller),
                                   to_h256(recipient_address)>>,
                                 to_bytes(value))>>)
        ELSE reverted(r.st, transfer_reverted_gas_cost, zero_word, FALSE)

\* transfer_body with the method's fixed cost charged on the revert.
transfer_body_full_cost(st, context, recipient_address, value) ==
    LET r == ledger_transfer(st, account_build_from(context.caller),
                             account_build_from(recipient_address), value)
    IN  IF ~r.ec
        THEN returned(r.st, one_word,
                      <<xevm_log(context.address,
                                 <<"event_hex_string_transfer",
                                   to_h256(context.caller),
                                   to_h256(recipient_address)>>,
                                 to_bytes(value))>>)
        ELSE reverted(r.st, transfer_gas_cost, zero_word, FALSE)

\* method_id_transfer, from the load of the unit states on: the ledger
\* transfer, then the Transfer log and the success output, or the revert.
transfer_body(st, context, recipient_address, value) ==
    LET r == ledger_transfer(st, account_build_from(context.caller),
                             account_build_from(recipient_address), value)
    IN  IF ~r.ec
        THEN returned(r.st, one_word,
                      <<xevm_log(context.address,
                                 <<"event_hex_string_transfer",
                                   to_h256(context.caller),
                                   to_h256(recipient_address)>>,
                                 to_bytes(value))>>)
        ELSE reverted(r.st, transfer_reverted_gas_cost, zero_word, FALSE)

\* exec_transfer with the parameter count checked before the gas.
exec_transfer_params_first(st, context, is_static, target_gas, abi_decoder, wfail) ==
    IF is_static THEN reverted(st, transfer_gas_cost, zero_word, FALSE)
    ELSE IF Len(abi_decoder) # 2 THEN fatal(st, "Other")
    ELSE IF target_gas < transfer_gas_cost THEN out_of_gas(st)
    ELSE IF extract_address_fails(abi_decoder[1]) THEN fatal(st, "Other")
    ELSE transfer_body(st, context, abi_decoder[1], abi_decoder[2])

\* case method_id_transfer
exec_transfer(st, context, is_static, target_gas, abi_decoder, wfail) ==
    IF is_static THEN reverted(st, transfer_gas_cost, zero_word, FALSE)
    ELSE IF target_gas < transfer_gas_cost THEN out_of_gas(st)
    ELSE IF Len(abi_decoder) # 2 THEN fatal(st, "Other")
    ELSE IF extract_address_fails(abi_decoder[1]) THEN fatal(st, "Other")
    ELSE transfer_body(st, context, abi_decoder[1], abi_decoder[2])

\* transfer_from_ledger with the `if (!ec)` after update_allowance dropped:
\* the transfer is made whether or not the allowance covered it.
transfer_from_ledger_unchecked(st, context, owner_address, recipient_address, value) ==
    LET a == update_allowance_decrease(st, account_build_from(owner_address),
                                       account_build_from(context.caller), value)
    IN  ledger_transfer(a.st, account_build_from(owner_address),
                        account_build_from(recipient_address), value)

\* transfer_from_ledger with update_allowance(decrease) called for the
\* recipient instead of the caller.
transfer_from_ledger_recipient_allowance(st, context, owner_address, recipient_address, value) ==
    LET a == update_allowance_decrease(st, account_build_from(owner_address),
                                       account_build_from(recipient_address), value)
    IN  IF ~a.ec
        THEN ledger_transfer(a.st, account_build_from(owner_address),
                             account_build_from(recipient_address), value)
        ELSE a

\* method_id_transfer_from, the two ledger calls: update_allowance(decrease)
\* on the owner for the caller, and, when that did not fail, the transfer
\* from the owner to the recipient.  ec is the error_code after both.
transfer_from_ledger(st, context, owner_address, recipient_address, value) ==
    LET a == update_allowance_decrease(st, account_build_from(owner_address),
                                       account_build_from(context.caller), value)
    IN  IF ~a.ec
        THEN ledger_transfer(a.st, account_build_from(owner_address),
                             account_build_from(recipient_address), value)
        ELSE a

\* transfer_from_body with the caller, not the owner, as the source topic of
\* the Transfer log.
transfer_from_body_caller_topic(st, context, owner_address, recipient_address, value) ==
    LET r == transfer_from_ledger(st, context, owner_address, recipient_address, value)
    IN  IF ~r.ec
        THEN returned(r.st, one_word,
                      <<xevm_log(context.address,
                                 <<"event_hex_string_transfer",
                                   to_h256(context.caller),
                                   to_h256(recipient_address)>>,
                                 to_bytes(value))>>)
        ELSE reverted(r.st, transfer_from_reverted_gas_cost, zero_word, FALSE)

\* method_id_transfer_from, from the load of the owner's unit state on.
transfer_from_body(st, context, owner_address, recipient_address, value) ==
    LET r == transfer_from_ledger(st, context, owner_address, recipient_address, value)
    IN  IF ~r.ec
        THEN returned(r.st, one_word,
                      <<xevm_log(context.address,
                                 <<"event_hex_string_transfer",
                                   to_h256(owner_address),
                                   to_h256(recipient_address)>>,
                                 to_bytes(value))>>)
        ELSE reverted(r.st, transfer_from_reverted_gas_cost, zero_word, FALSE)

\* case method_id_transfer_from
exec_transfer_from(st, context, is_static, target_gas, abi_decoder, wfail) ==
    IF is_static THEN reverted(st, transfer_from_gas_cost, zero_word, FALSE)
    ELSE IF target_gas < transfer_from_gas_cost THEN out_of_gas(st)
    ELSE IF Len(abi_decoder) # 3 THEN fatal(st, "Other")
    ELSE IF extract_address_fails(abi_decoder[1]) THEN fatal(st, "Other")
    ELSE IF extract_address_fails(abi_decoder[2]) THEN fatal(st, "Other")
    ELSE transfer_from_body(st, context, abi_decoder[1], abi_decoder[2], abi_decoder[3])

\* approve_ledger calling update_allowance(increase) instead of approve: the
\* amount is added to the allowance.
approve_ledger_additive(st, context, spender_address, amount, wfail) ==
    IF wfail
    THEN [ec |-> TRUE, st |-> st]
    ELSE update_allowance_increase(st, account_build_from(context.caller),
                                   account_build_from(spender_address), amount)

\* method_id_approve, the ledger call: approve on the caller's unit state.
approve_ledger(st, context, spender_address, amount, wfail) ==
    ledger_approve(st, account_build_from(context.caller),
                   account_build_from(spender_address), amount, wfail)

\* method_id_approve, from the load of the caller's unit state on.  The
\* handler ends with `return true` on both branches.
approve_body(st, context, spender_address, amount, wfail) ==
    LET r == approve_ledger(st, context, spender_address, amount, wfail)
    IN  IF ~r.ec
        THEN returned(r.st, one_word,
                      <<xevm_log(context.address,
                                 <<"event_hex_string_approve",
                                   to_h256(context.caller),
                                   to_h256(spender_address)>>,
                                 to_bytes(amount))>>)
        ELSE reverted(r.st, approve_gas_cost \div 2, zero_word, TRUE)

\* exec_approve with the static-context check after the gas check.
exec_approve_gas_first(st, context, is_static, target_gas, abi_decoder, wfail) ==
    IF target_gas < approve_gas_cost THEN out_of_gas(st)
    ELSE IF is_static THEN reverted(st, approve_gas_cost, zero_word, FALSE)
    ELSE IF Len(abi_decoder) # 2 THEN fatal(st, "Other")
    ELSE IF extract_address_fails(abi_decoder[1]) THEN fatal(st, "Other")
    ELSE approve_body(st, context, abi_decoder[1], abi_decoder[2], wfail)

\* case method_id_approve
exec_approve(st, context, is_static, target_gas, abi_decoder, wfail) ==
    IF is_static THEN reverted(st, approve_gas_cost, zero_word, FALSE)
    ELSE IF target_gas < approve_gas_cost THEN out_of_gas(st)
    ELSE IF Len(abi_decoder) # 2 THEN fatal(st, "Other")
    ELSE IF extract_address_fails(abi_decoder[1]) THEN fatal(st, "Other")
    ELSE approve_body(st, context, abi_decoder[1], abi_decoder[2], wfail)

\* exec_allowance reporting its fixed gas cost as the cost of the success.
exec_allowance_charged(st, context, is_static, target_gas, abi_decoder, wfail) ==
    IF target_gas < allowance_gas_cost THEN out_of_gas(st)
    ELSE IF Len(abi_decoder) # 2 THEN fatal(st, "Other")
    ELSE IF extract_address_fails(abi_decoder[1]) THEN fatal(st, "Other")
    ELSE IF extract_address_fails(abi_decoder[2]) THEN fatal(st, "Other")
    ELSE [returned(st,
                   to_bytes(ledger_allowance(st, account_build_from(abi_decoder[1]),
                                             account_build_from(abi_decoder[2]))),
                   <<>>)
             EXCEPT !.output.cost = allowance_gas_cost]

\* exec_allowance with the static-context check of the mutating methods in
\* front.
exec_allowance_static_rejected(st, context, is_static, target_gas, abi_decoder, wfail) ==
    IF is_static THEN reverted(st, allowance_gas_cost, zero_word, FALSE)
    ELSE IF target_gas < allowance_gas_cost THEN out_of_gas(st)
    ELSE IF Len(abi_decoder) # 2 THEN fatal(st, "Other")
    ELSE IF extract_address_fails(abi_decoder[1]) THEN fatal(st, "Other")
    ELSE IF extract_address_fails(abi_decoder[2]) THEN fatal(st, "Other")
    ELSE returned(st,
                  to_bytes(ledger_allowance(st, account_build_from(abi_decoder[1]),
                                            account_build_from(abi_decoder[2]))),
                  <<>>)

\* case method_id_allowance
exec_allowance(st, context, is_static, target_gas, abi_decoder, wfail) ==
    IF target_gas < allowance_gas_cost THEN out_of_gas(st)
    ELSE IF Len(abi_decoder) # 2 THEN fatal(st, "Other")
    ELSE IF extract_address_fails(abi_decoder[1]) THEN fatal(st, "Other")
    ELSE IF extract_address_fails(abi_decoder[2]) THEN fatal(st, "Other")
    ELSE returned(st,
                  to_bytes(ledger_allowance(st, account_build_from(abi_decoder[1]),
                                            account_build_from(abi_decoder[2]))),
                  <<>>)

\* method_id_mint, from the load of the receiver's unit state on.
\* tep_token_deposit takes no error_code, and ec is clear after the decode,
\* so the revert branch of the handler is never taken.
mint_body(st, context, recver, value) ==
    LET st2 == tep_token_deposit(st, account_build_from(recver), value)
    IN  returned(st2, one_word,
                 <<xevm_log(context.address,
                            <<"event_hex_string_transfer",
                              to_h256(eth_zero),
                              to_h256(recver)>>,
                            to_bytes(value))>>)

\* exec_mint with the controller check made after the deposit.
exec_mint_deposit_first(st, context, is_static, target_gas, abi_decoder, wfail) ==
    IF is_static THEN reverted(st, mint_gas_cost, zero_word, FALSE)
    ELSE IF target_gas < mint_gas_cost THEN out_of_gas(st)
    ELSE IF Len(abi_decoder) # 2 THEN fatal(st, "Other")
    ELSE IF extract_address_fails(abi_decoder[1]) THEN fatal(st, "Other")
    ELSE IF account_build_from(context.caller) # tep_token_controller(st)
         THEN fatal(mint_body(st, context, abi_decoder[1], abi_decoder[2]).st, "Other")
    ELSE mint_body(st, context, abi_decoder[1], abi_decoder[2])

\* case method_id_mint
exec_mint(st, context, is_static, target_gas, abi_decoder, wfail) ==
    IF is_static THEN reverted(st, mint_gas_cost, zero_word, FALSE)
    ELSE IF account_build_from(context.caller) # tep_token_controller(st)
         THEN fatal(st, "Other")
    ELSE IF target_gas < mint_gas_cost THEN out_of_gas(st)
    ELSE IF Len(abi_decoder) # 2 THEN fatal(st, "Other")
    ELSE IF extract_address_fails(abi_decoder[1]) THEN fatal(st, "Other")
    ELSE mint_body(st, context, abi_decoder[1], abi_decoder[2])

\* method_id_burn_from, from the load of the unit state on.
\* tep_token_withdraw takes no error_code, and ec is clear after the decode,
\* so the revert branch of the handler is never taken.
burn_from_body(st, context, burn_from, value) ==
    LET st2 == tep_token_withdraw(st, account_build_from(burn_from), value)
    IN  returned(st2, one_word,
                 <<xevm_log(context.address,
                            <<"event_hex_string_transfer",
                              to_h256(burn_from),
                              to_h256(eth_zero)>>,
                            to_bytes(value))>>)

\* exec_burn_from without the controller check.
exec_burn_from_no_auth(st, context, is_static, target_gas, abi_decoder, wfail) ==
    IF is_static THEN reverted(st, burn_gas_cost, zero_word, FALSE)
    ELSE IF target_gas < burn_gas_cost THEN out_of_gas(st)
    ELSE IF Len(abi_decoder) # 2 THEN fatal(st, "Other")
    ELSE IF extract_address_fails(abi_decoder[1]) THEN fatal(st, "Other")
    ELSE burn_from_body(st, context, abi_decoder[1], abi_decoder[2])

\* case method_id_burn_from
exec_burn_from(st, context, is_static, target_gas, abi_decoder, wfail) ==
    IF is_static THEN reverted(st, burn_gas_cost, zero_word, FALSE)
    ELSE IF account_build_from(context.caller) # tep_token_controller(st)
         THEN fatal(st, "Other")
    ELSE IF target_gas < burn_gas_cost THEN out_of_gas(st)
    ELSE IF Len(abi_decoder) # 2 THEN fatal(st, "Other")
    ELSE IF extract_address_fails(abi_decoder[1]) THEN fatal(st, "Other")
    ELSE burn_from_body(st, context, abi_decoder[1], abi_decoder[2])

\* transfer_ownership_body with the event signature of setController in its
\* log.
transfer_ownership_body_controller_event(st, context, new_owner, wfail) ==
    LET r == set_tep_token_owner(st, account_build_from(new_owner), wfail)
    IN  IF ~r.ec
        THEN returned(r.st, one_word,
                      <<xevm_log(context.address,
                                 <<"event_hex_string_controller_set",
                                   to_h256(context.caller),
                                   to_h256(new_owner)>>,
                                 <<>>)>>)
        ELSE reverted(r.st, transfer_ownership_gas_cost, zero_word, FALSE)

\* method_id_transfer_ownership, from the write of the owner on.
transfer_ownership_body(st, context, new_owner, wfail) ==
    LET r == set_tep_token_owner(st, account_build_from(new_owner), wfail)
    IN  IF ~r.ec
        THEN returned(r.st, one_word,
                      <<xevm_log(context.address,
                                 <<"event_hex_string_ownership_transferred",
                                   to_h256(context.caller),
                                   to_h256(new_owner)>>,
                                 <<>>)>>)
        ELSE reverted(r.st, transfer_ownership_gas_cost, zero_word, FALSE)

\* exec_transfer_ownership without the comparison of the caller with the
\* stored owner.
exec_transfer_ownership_by_anyone(st, context, is_static, target_gas, abi_decoder, wfail) ==
    IF is_static THEN reverted(st, transfer_ownership_gas_cost, zero_word, FALSE)
    ELSE IF target_gas < transfer_ownership_gas_cost THEN out_of_gas(st)
    ELSE IF Len(abi_decoder) # 1 THEN fatal(st, "Other")
    ELSE IF extract_address_fails(abi_decoder[1]) THEN fatal(st, "Other")
    ELSE transfer_ownership_body(st, context, abi_decoder[1], wfail)

\* case method_id_transfer_ownership
exec_transfer_ownership(st, context, is_static, target_gas, abi_decoder, wfail) ==
    IF is_static THEN reverted(st, transfer_ownership_gas_cost, zero_word, FALSE)
    ELSE IF account_build_from(context.caller) # tep_token_owner(st)
         THEN fatal(st, "Other")
    ELSE IF target_gas < transfer_ownership_gas_cost THEN out_of_gas(st)
    ELSE IF Len(abi_decoder) # 1 THEN fatal(st, "Other")
    ELSE IF extract_address_fails(abi_decoder[1]) THEN fatal(st, "Other")
    ELSE transfer_ownership_body(st, context, abi_decoder[1], wfail)

\* set_controller_body with the old controller read after the write.
set_controller_body_reads_after_write(st, context, new_controller, wfail) ==
    LET r == set_tep_token_controller(st, account_build_from(new_controller), wfail)
        old_controller == eth_build_from(tep_token_controller(r.st))
    IN  IF ~r.ec
        THEN returned(r.st, one_word,
                      <<xevm_log(context.address,
                                 <<"event_hex_string_controller_set",
                                   to_h256(old_controller),
                                   to_h256(new_controller)>>,
                                 <<>>)>>)
        ELSE reverted(r.st, set_controller_gas_cost, zero_word, FALSE)

\* method_id_set_controller, from the read of the old controller on.
set_controller_body(st, context, new_controller, wfail) ==
    LET old_controller == eth_build_from(tep_token_controller(st))
        r == set_tep_token_controller(st, account_build_from(new_controller), wfail)
    IN  IF ~r.ec
        THEN returned(r.st, one_word,
                      <<xevm_log(context.address,
                                 <<"event_hex_string_controller_set",
                                   to_h256(old_controller),
                                   to_h256(new_controller)>>,
                                 <<>>)>>)
        ELSE reverted(r.st, set_controller_gas_cost, zero_word, FALSE)

\* exec_set_controller with the caller compared to the stored controller
\* instead of the stored owner.
exec_set_controller_by_controller(st, context, is_static, target_gas, abi_decoder, wfail) ==
    IF is_static THEN reverted(st, set_controller_gas_cost, zero_word, FALSE)
    ELSE IF account_build_from(context.caller) # tep_token_controller(st)
         THEN fatal(st, "Other")
    ELSE IF target_gas < set_controller_gas_cost THEN out_of_gas(st)
    ELSE IF Len(abi_decoder) # 1 THEN fatal(st, "Other")
    ELSE IF extract_address_fails(abi_decoder[1]) THEN fatal(st, "Other")
    ELSE set_controller_body(st, context, abi_decoder[1], wfail)

\* case method_id_set_controller
exec_set_controller(st, context, is_static, target_gas, abi_decoder, wfail) ==
    IF is_static THEN reverted(st, set_controller_gas_cost, zero_word, FALSE)
    ELSE IF account_build_from(context.caller) # tep_token_owner(st)
         THEN fatal(st, "Other")
    ELSE IF target_gas < set_controller_gas_cost THEN out_of_gas(st)
    ELSE IF Len(abi_decoder) # 1 THEN fatal(st, "Other")
    ELSE IF extract_address_fails(abi_decoder[1]) THEN fatal(st, "Other")
    ELSE set_controller_body(st, context, abi_decoder[1], wfail)

\* case method_id_owner
exec_owner(st, context, is_static, target_gas, abi_decoder, wfail) ==
    returned(st, to_h256(eth_build_from(tep_token_owner(st))), <<>>)

\* case method_id_controller
exec_controller(st, context, is_static, target_gas, abi_decoder, wfail) ==
    returned(st, to_h256(eth_build_from(tep_token_controller(st))), <<>>)

(***************************************************************************)
(* execute.  The input is                                                  *)
(*   chain_uuid (1 byte) | erc20_method_id (4 bytes) | parameters          *)
(* and is modelled as the record                                           *)
(*   empty      : the input has no byte at all                             *)
(*   chain_uuid : the chain tag of input.front()                           *)
(*   abi_ok     : xabi_decoder_t::build_from accepts the bytes after the   *)
(*                tag                                                      *)
(*   selector_ok: the 4-byte selector can be extracted                     *)
(*   method_id  : the selector                                             *)
(*   params     : the 32-byte words after the selector                     *)
(***************************************************************************)
\* execute with the parameters and the selector decoded before the chain tag
\* is compared.
execute_decode_first(input, target_gas, context, is_static, st, wfail) ==
    IF input.empty THEN fatal(st, "Other")
    ELSE IF ~input.abi_ok THEN fatal(st, "Other")
    ELSE IF ~input.selector_ok THEN fatal(st, "Other")
    ELSE IF input.chain_uuid # chain_uuid_eth THEN fatal(st, "NotSupported")
    ELSE CASE input.method_id = "decimals" ->
                exec_decimals(st, context, is_static, target_gas, input.params, wfail)
           [] input.method_id = "totalSupply" ->
                exec_total_supply(st, context, is_static, target_gas, input.params, wfail)
           [] input.method_id = "balanceOf" ->
                exec_balance_of(st, context, is_static, target_gas, input.params, wfail)
           [] input.method_id = "transfer" ->
                exec_transfer(st, context, is_static, target_gas, input.params, wfail)
           [] input.method_id = "transferFrom" ->
                exec_transfer_from(st, context, is_static, target_gas, input.params, wfail)
           [] input.method_id = "approve" ->
                exec_approve(st, context, is_static, target_gas, input.params, wfail)
           [] input.method_id = "allowance" ->
                exec_allowance(st, context, is_static, target_gas, input.params, wfail)
           [] input.method_id = "mint" ->
                exec_mint(st, context, is_static, target_gas, input.params, wfail)
           [] input.method_id = "burnFrom" ->
                exec_burn_from(st, context, is_static, target_gas, input.params, wfail)
           [] input.method_id = "transferOwnership" ->
                exec_transfer_ownership(st, context, is_static, target_gas, input.params, wfail)
           [] input.method_id = "setController" ->
                exec_set_controller(st, context, is_static, target_gas, input.params, wfail)
           [] input.method_id = "owner" ->
                exec_owner(st, context, is_static, target_gas, input.params, wfail)
           [] input.method_id = "controller" ->
                exec_controller(st, context, is_static, target_gas, input.params, wfail)
           [] OTHER -> fatal(st, "NotSupported")

\* xtop_delegate_usdt_contract::execute
execute(input, target_gas, context, is_static, st, wfail) ==
    IF input.empty THEN fatal(st, "Other")
    ELSE IF input.chain_uuid # chain_uuid_eth THEN fatal(st, "NotSupported")
    ELSE IF ~input.abi_ok THEN fatal(st, "Other")
    ELSE IF ~input.selector_ok THEN fatal(st, "Other")
    ELSE CASE input.method_id = "decimals" ->
                exec_decimals(st, context, is_static, target_gas, input.params, wfail)
           [] input.method_id = "totalSupply" ->
                exec_total_supply(st, context, is_static, target_gas, input.params, wfail)
           [] input.method_id = "balanceOf" ->
                exec_balance_of(st, context, is_static, target_gas, input.params, wfail)
           [] input.method_id = "transfer" ->
                exec_transfer(st, context, is_static, target_gas, input.params, wfail)
           [] input.method_id = "transferFrom" ->
                exec_transfer_from(st, context, is_static, target_gas, input.params, wfail)
           [] input.method_id = "approve" ->
                exec_approve(st, context, is_static, target_gas, input.params, wfail)
           [] input.method_id = "allowance" ->
                exec_allowance(st, context, is_static, target_gas, input.params, wfail)
           [] input.method_id = "mint" ->
                exec_mint(st, context, is_static, target_gas, input.params, wfail)
           [] input.method_id = "burnFrom" ->
                exec_burn_from(st, context, is_static, target_gas, input.params, wfail)
           [] input.method_id = "transferOwnership" ->
                exec_transfer_ownership(st, context, is_static, target_gas, input.params, wfail)
           [] input.method_id = "setController" ->
                exec_set_controller(st, context, is_static, target_gas, input.params, wfail)
           [] input.method_id = "owner" ->
                exec_owner(st, context, is_static, target_gas, input.params, wfail)
           [] input.method_id = "controller" ->
                exec_controller(st, context, is_static, target_gas, input.params, wfail)
           [] OTHER -> fatal(st, "NotSupported")

(***************************************************************************)
(* The state machine.                                                      *)
(*   state  : the ledger                                                   *)
(*   pre    : the ledger when the last call of execute started             *)
(*   call   : the arguments of the last call                               *)
(*   ret, output, err : what the last call returned and filled             *)
(*   pc     : "idle" (the host holds fresh out-parameters) or "done" (a    *)
(*            call returned and the host has not consumed its outcome)     *)
(*   ncalls : the number of calls made                                     *)
(*   former : the account the last change of the stored owner replaced,    *)
(*            and the one the last change of the stored controller         *)
(*            replaced (no_account while the role has not changed)         *)
(***************************************************************************)
VARIABLES state, pre, call, ret, output, err, pc, ncalls, former

vars == <<state, pre, call, ret, output, err, pc, ncalls, former>>

\* No account: the value of `former` for a role that has not changed hands.
no_account == <<"none", 0>>

\* The ledger when the observed calls start: account 1 owns the token and
\* holds one unit of it from an earlier mint, account 2 controls the token,
\* and no allowance is set.
genesis ==
    [balance    |-> [a \in Accounts |-> IF a = account_build_from(1) THEN 1 ELSE 0],
     allowance  |-> [a \in Accounts |-> [b \in Accounts |-> 0]],
     owner      |-> account_build_from(1),
     controller |-> account_build_from(2)]

make_input(empty, chain_uuid, abi_ok, selector_ok, method_id, params) ==
    [empty |-> empty, chain_uuid |-> chain_uuid, abi_ok |-> abi_ok,
     selector_ok |-> selector_ok, method_id |-> method_id, params |-> params]

\* A well-formed input for a method.
method_input(method_id, params) ==
    make_input(FALSE, chain_uuid_eth, TRUE, TRUE, method_id, params)

no_call ==
    [input |-> make_input(TRUE, chain_uuid_eth, FALSE, FALSE, "none", <<>>),
     target_gas |-> 0,
     context |-> [caller |-> eth_zero, address |-> evm_usdt_contract_address],
     is_static |-> FALSE,
     wfail |-> FALSE]

Init ==
    /\ state = genesis
    /\ pre = genesis
    /\ call = no_call
    /\ ret = FALSE
    /\ output = fresh_output
    /\ err = fresh_err
    /\ pc = "idle"
    /\ ncalls = 0
    /\ former = [owner |-> no_account, controller |-> no_account]

(***************************************************************************)
(* The inputs the calls are drawn from.                                    *)
(***************************************************************************)
Amounts == 0..MaxAmt

\* The well-formed words at an address position and at an amount position.
WordsOf(type) == IF type = "address" THEN Addr ELSE Amounts

AllWords == Addr \cup Amounts

\* Parameter lists of the declared arity and types, lists with a word that
\* is no address at one address position, and one list too short and one too
\* long.
ParamsOf(types) ==
    {p \in [1..Len(types) -> AllWords] : \A i \in 1..Len(types) : p[i] \in WordsOf(types[i])}
    \cup {[i \in 1..Len(types) |-> IF i = k THEN BadAddrWord ELSE 0] :
            k \in {j \in 1..Len(types) : types[j] = "address"}}
    \cup {[i \in 1..(Len(types) + 1) |-> 0]}
    \cup (IF Len(types) > 0 THEN {[i \in 1..(Len(types) - 1) |-> 0]} ELSE {})

\* Whether the property write of the call fails: it can only in a call that
\* is not static and has the gas to reach it.
WriteFaults(is_static, target_gas, cost) ==
    IF is_static \/ target_gas < cost THEN {FALSE} ELSE BOOLEAN

\* Gas limits around a method's fixed cost; a method without a gas check is
\* called with no gas and with some.
GasLevels(cost) == IF cost = 0 THEN {0, 1} ELSE {cost - 1, cost}

\* One call of execute: the whole function, from the host's fresh
\* out-parameters to the return.
Call(input, target_gas, caller, is_static, wfail) ==
    /\ ncalls < MaxCalls
    /\ LET context == [caller |-> caller, address |-> evm_usdt_contract_address]
           r == execute(input, target_gas, context, is_static, state, wfail)
       IN  /\ state' = r.st
           /\ ret' = r.ret
           /\ output' = r.output
           /\ err' = r.err
           /\ call' = [input |-> input, target_gas |-> target_gas, context |-> context,
                       is_static |-> is_static, wfail |-> wfail]
           /\ former' = [owner |-> IF r.st.owner # state.owner
                                    THEN state.owner ELSE former.owner,
                          controller |-> IF r.st.controller # state.controller
                                         THEN state.controller ELSE former.controller]
    /\ pre' = state
    /\ pc' = "done"
    /\ ncalls' = ncalls + 1

\* One action per method of the switch.  A call of a method whose ledger step
\* is a property write (approve, transferOwnership, setController) is also
\* tried with the write failing.
decimals ==
    \E caller \in Callers, is_static \in BOOLEAN,
       target_gas \in GasLevels(0), params \in ParamsOf(<<>>) :
        /\ pc = "idle"
        /\ Call(method_input("decimals", params), target_gas, caller, is_static, FALSE)

totalSupply ==
    \E caller \in Callers, is_static \in BOOLEAN,
       target_gas \in GasLevels(total_supply_gas_cost), params \in ParamsOf(<<>>) :
        /\ pc = "idle"
        /\ Call(method_input("totalSupply", params), target_gas, caller, is_static, FALSE)

balanceOf ==
    \E caller \in Callers, is_static \in BOOLEAN,
       target_gas \in GasLevels(balance_of_gas_cost), params \in ParamsOf(<<"address">>) :
        /\ pc = "idle"
        /\ Call(method_input("balanceOf", params), target_gas, caller, is_static, FALSE)

transfer ==
    \E caller \in Callers, is_static \in BOOLEAN,
       target_gas \in GasLevels(transfer_gas_cost),
       params \in ParamsOf(<<"address", "uint256">>) :
        /\ pc = "idle"
        /\ Call(method_input("transfer", params), target_gas, caller, is_static, FALSE)

transferFrom ==
    \E caller \in Callers, is_static \in BOOLEAN,
       target_gas \in GasLevels(transfer_from_gas_cost),
       params \in ParamsOf(<<"address", "address", "uint256">>) :
        /\ pc = "idle"
        /\ Call(method_input("transferFrom", params), target_gas, caller, is_static, FALSE)

approve ==
    \E caller \in Callers, is_static \in BOOLEAN,
       target_gas \in GasLevels(approve_gas_cost),
       params \in ParamsOf(<<"address", "uint256">>) :
      \E wfail \in WriteFaults(is_static, target_gas, approve_gas_cost) :
        /\ pc = "idle"
        /\ Call(method_input("approve", params), target_gas, caller, is_static, wfail)

allowance ==
    \E caller \in Callers, is_static \in BOOLEAN,
       target_gas \in GasLevels(allowance_gas_cost),
       params \in ParamsOf(<<"address", "address">>) :
        /\ pc = "idle"
        /\ Call(method_input("allowance", params), target_gas, caller, is_static, FALSE)

mint ==
    \E caller \in Callers, is_static \in BOOLEAN,
       target_gas \in GasLevels(mint_gas_cost),
       params \in ParamsOf(<<"address", "uint256">>) :
        /\ pc = "idle"
        /\ Call(method_input("mint", params), target_gas, caller, is_static, FALSE)

burnFrom ==
    \E caller \in Callers, is_static \in BOOLEAN,
       target_gas \in GasLevels(burn_gas_cost),
       params \in ParamsOf(<<"address", "uint256">>) :
        /\ pc = "idle"
        /\ Call(method_input("burnFrom", params), target_gas, caller, is_static, FALSE)

transferOwnership ==
    \E caller \in Callers, is_static \in BOOLEAN,
       target_gas \in GasLevels(transfer_ownership_gas_cost),
       params \in ParamsOf(<<"address">>) :
      \E wfail \in WriteFaults(is_static, target_gas, transfer_ownership_gas_cost) :
        /\ pc = "idle"
        /\ Call(method_input("transferOwnership", params), target_gas, caller, is_static, wfail)

setController ==
    \E caller \in Callers, is_static \in BOOLEAN,
       target_gas \in GasLevels(set_controller_gas_cost),
       params \in ParamsOf(<<"address">>) :
      \E wfail \in WriteFaults(is_static, target_gas, set_controller_gas_cost) :
        /\ pc = "idle"
        /\ Call(method_input("setController", params), target_gas, caller, is_static, wfail)

owner ==
    \E caller \in Callers, is_static \in BOOLEAN,
       target_gas \in GasLevels(0), params \in ParamsOf(<<>>) :
        /\ pc = "idle"
        /\ Call(method_input("owner", params), target_gas, caller, is_static, FALSE)

controller ==
    \E caller \in Callers, is_static \in BOOLEAN,
       target_gas \in GasLevels(0), params \in ParamsOf(<<>>) :
        /\ pc = "idle"
        /\ Call(method_input("controller", params), target_gas, caller, is_static, FALSE)

\* Inputs that execute rejects before its switch, or in its default case.
InvalidInputs ==
    {make_input(TRUE, chain_uuid_eth, FALSE, FALSE, "none", <<>>),
     make_input(FALSE, "other", TRUE, TRUE, "transfer", <<1, 1>>),
     make_input(FALSE, "other", FALSE, FALSE, "none", <<>>),
     make_input(FALSE, chain_uuid_eth, FALSE, FALSE, "none", <<>>),
     make_input(FALSE, chain_uuid_eth, TRUE, FALSE, "none", <<>>),
     make_input(FALSE, chain_uuid_eth, TRUE, TRUE, "unknown", <<>>),
     make_input(FALSE, chain_uuid_eth, TRUE, TRUE, "unknown", <<1, 1>>)}

invalid_input ==
    \E input \in InvalidInputs, caller \in Callers, is_static \in BOOLEAN,
       target_gas \in {0, transfer_gas_cost} :
        /\ pc = "idle"
        /\ Call(input, target_gas, caller, is_static, FALSE)

\* The host consumes the outcome and prepares fresh out-parameters for the
\* next call.
host_consume ==
    /\ pc = "done"
    /\ pc' = "idle"
    /\ pre' = state
    /\ call' = no_call
    /\ ret' = FALSE
    /\ output' = fresh_output
    /\ err' = fresh_err
    /\ UNCHANGED <<state, ncalls, former>>

Next ==
    \/ decimals
    \/ totalSupply
    \/ balanceOf
    \/ transfer
    \/ transferFrom
    \/ approve
    \/ allowance
    \/ mint
    \/ burnFrom
    \/ transferOwnership
    \/ setController
    \/ owner
    \/ controller
    \/ invalid_input
    \/ host_consume

Spec == Init /\ [][Next]_vars

(***************************************************************************)
(* Vocabulary of the properties: the last call and its outcome.            *)
(***************************************************************************)
\* The last call passed the input parser and reached the case of method m.
Dispatched(m) ==
    /\ pc = "done"
    /\ ~call.input.empty
    /\ call.input.chain_uuid = chain_uuid_eth
    /\ call.input.abi_ok
    /\ call.input.selector_ok
    /\ call.input.method_id = m

Caller == call.context.caller
Param(i) == call.input.params[i]
Acct(a) == account_build_from(a)

\* The parameters have the arity and the types of `types`.
WellFormed(types) ==
    /\ Len(call.input.params) = Len(types)
    /\ \A i \in 1..Len(types) : types[i] = "address" => call.input.params[i] \in Addr

\* Outcome kinds: Success, Revert(Reverted), Error(OutOfGas), Fatal(minor).
IsSuccess == ret = TRUE /\ output.exit_status = "Returned" /\ err = fresh_err
IsRevert ==
    /\ ret = FALSE
    /\ err.fail_status = "Revert"
    /\ err.minor_status = "Reverted"
    /\ output = fresh_output
IsOutOfGas ==
    /\ ret = FALSE
    /\ err.fail_status = "Error"
    /\ err.minor_status = "OutOfGas"
    /\ output = fresh_output
IsFatal(minor) ==
    /\ ret = FALSE
    /\ err.fail_status = "Fatal"
    /\ err.minor_status = minor
    /\ output = fresh_output

NoLog == output.logs = <<>>

MutatingMethods ==
    {"transfer", "transferFrom", "approve", "mint", "burnFrom",
     "transferOwnership", "setController"}

\* The method table of the specification: fixed gas cost and parameter types.
GasCostOf(m) ==
    CASE m = "totalSupply" -> 2538
      [] m = "balanceOf" -> 3268
      [] m = "transfer" -> 18446
      [] m = "transferFrom" -> 18190
      [] m = "approve" -> 18599
      [] m = "allowance" -> 3987
      [] m \in {"mint", "burnFrom", "transferOwnership", "setController"} -> 3155
      [] OTHER -> 0

TypesOf(m) ==
    CASE m = "balanceOf" -> <<"address">>
      [] m \in {"transfer", "approve", "mint", "burnFrom"} -> <<"address", "uint256">>
      [] m = "transferFrom" -> <<"address", "address", "uint256">>
      [] m = "allowance" -> <<"address", "address">>
      [] m \in {"transferOwnership", "setController"} -> <<"address">>
      [] OTHER -> <<>>

\* The four checks on the last call, each judged on the ledger before it.
StaticFails == call.is_static /\ call.input.method_id \in MutatingMethods
GasFails == call.target_gas < GasCostOf(call.input.method_id)
AuthFails ==
    \/ /\ call.input.method_id \in {"mint", "burnFrom"}
       /\ Acct(Caller) # pre.controller
    \/ /\ call.input.method_id \in {"transferOwnership", "setController"}
       /\ Acct(Caller) # pre.owner
\* The parameter check is the one the specification states for every method:
\* the call carries the parameters of the method's signature, no more and no
\* fewer, and each address word decodes.
ParamFails == ~WellFormed(TypesOf(call.input.method_id))

AnyMethod == \E m \in MethodIds : Dispatched(m)

(***************************************************************************)
(* transferFrom                                                            *)
(***************************************************************************)
\* The last call is a non-static transferFrom(owner, recipient, amount) with
\* enough gas and well-formed parameters: it reached the ledger.
TransferFromReachedLedger ==
    /\ Dispatched("transferFrom")
    /\ ~call.is_static
    /\ call.target_gas >= 18190
    /\ WellFormed(<<"address", "address", "uint256">>)

\* The ledger after the allowance decrement and the balance transfer of
\* transferFrom(o, r, v) by caller c have both been applied to `before`.
BothApplied(before, c, o, r, v) ==
    [before EXCEPT
        !.allowance[Acct(o)][Acct(c)] = @ - v,
        !.balance = [a \in Accounts |->
            before.balance[a] - (IF a = Acct(o) THEN v ELSE 0)
                              + (IF a = Acct(r) THEN v ELSE 0)]]

\* C1: transferFrom is atomic: after every transferFrom(owner, recipient,
\* amount) call either both the decrement of allowance(owner, caller) and the
\* owner-to-recipient transfer have taken effect or neither has; when the
\* allowance is sufficient and the owner's balance is below amount, the call
\* reverts and allowance(owner, caller) is what it was before the call.
C1_TransferFromAtomic ==
    TransferFromReachedLedger =>
        LET o == Param(1)
            r == Param(2)
            v == Param(3)
        IN  /\ \/ state = pre
               \/ state = BothApplied(pre, Caller, o, r, v)
            /\ (pre.allowance[Acct(o)][Acct(Caller)] >= v /\ pre.balance[Acct(o)] < v)
                  => /\ IsRevert
                     /\ state.allowance[Acct(o)][Acct(Caller)]
                            = pre.allowance[Acct(o)][Acct(Caller)]

\* C2: a non-static transferFrom with enough gas and well-formed parameters
\* whose allowance(owner, caller) is below amount changes no balance and no
\* allowance, emits no log, and ends Revert(Reverted) with a 32-byte all-zero
\* output.
C2_TransferFromNoAllowance ==
    (/\ TransferFromReachedLedger
     /\ pre.allowance[Acct(Param(1))][Acct(Caller)] < Param(3))
        => /\ state.balance = pre.balance
           /\ state.allowance = pre.allowance
           /\ NoLog
           /\ IsRevert
           /\ err.output = [i \in 1..32 |-> 0]

\* C2's case: the allowance is short while the owner's balance would cover
\* the amount, and the call has reverted.
C2_Witness ==
    /\ TransferFromReachedLedger
    /\ pre.allowance[Acct(Param(1))][Acct(Caller)] < Param(3)
    /\ pre.balance[Acct(Param(1))] >= Param(3)
    /\ Param(1) # Param(2)
    /\ IsRevert

(***************************************************************************)
(* Order of the checks                                                     *)
(***************************************************************************)
\* C3 as stated: every method evaluates its checks in the order static
\* context, gas, authorization, parameter decode; the first failing check
\* decides the outcome (so for mint, burnFrom, transferOwnership and
\* setController the gas check comes before the caller-role check), and the
\* ledger changes only when all of them pass.
C3_CanonicalOrder ==
    AnyMethod =>
        /\ StaticFails => IsRevert
        /\ (~StaticFails /\ GasFails) => IsOutOfGas
        /\ (~StaticFails /\ ~GasFails /\ AuthFails) => IsFatal("Other")
        /\ (~StaticFails /\ ~GasFails /\ ~AuthFails /\ ParamFails) => IsFatal("Other")
        /\ state # pre => (~StaticFails /\ ~GasFails /\ ~AuthFails /\ ~ParamFails)

\* C4 as stated: for every method, a call whose gas_limit is below the
\* method's fixed gas cost ends Error(OutOfGas), changes no ledger state and
\* emits no log, whatever the parameters are.
C4_BelowCostIsOutOfGas ==
    (AnyMethod /\ GasFails) => (IsOutOfGas /\ state = pre /\ NoLog)

\* C4 (amended): for every method, a call whose gas_limit is below the
\* method's fixed gas cost, that is not a static call of a mutating method and
\* whose caller holds the role a privileged method asks for, ends
\* Error(OutOfGas), changes no ledger state and emits no log, whatever the
\* parameters are.
C4_BelowCostAfterStaticAndRole ==
    (AnyMethod /\ GasFails /\ ~StaticFails /\ ~AuthFails)
        => (IsOutOfGas /\ state = pre /\ NoLog)

\* C4's case: a non-static transfer with too little gas and parameters that
\* would not decode has ended out of gas.
C4_Witness ==
    /\ Dispatched("transfer")
    /\ ~call.is_static
    /\ call.target_gas < 18446
    /\ ~WellFormed(<<"address", "uint256">>)
    /\ IsOutOfGas

(***************************************************************************)
(* Authorization                                                           *)
(***************************************************************************)
MintOrBurnByStranger ==
    /\ Dispatched("mint") \/ Dispatched("burnFrom")
    /\ Acct(Caller) # pre.controller

\* C5 as stated: every mint or burnFrom call whose caller is not the stored
\* controller ends Fatal(Other) and changes no balance, allowance or role,
\* whatever the gas limit and the parameters are.
C5_NonControllerIsFatal ==
    MintOrBurnByStranger => (IsFatal("Other") /\ state = pre)

\* C5 (amended): every non-static mint or burnFrom call whose caller is not
\* the stored controller ends Fatal(Other) and changes no balance, allowance
\* or role, whatever the gas limit and the parameters are.
C5_NonStaticNonControllerIsFatal ==
    (MintOrBurnByStranger /\ ~call.is_static) => (IsFatal("Other") /\ state = pre)

\* C5's case: a non-static burnFrom from a caller who is not the controller,
\* with enough gas and well-formed parameters naming an account that holds
\* the amount, has ended Fatal(Other).
C5_Witness ==
    /\ Dispatched("burnFrom")
    /\ Acct(Caller) # pre.controller
    /\ ~call.is_static
    /\ call.target_gas >= 3155
    /\ WellFormed(<<"address", "uint256">>)
    /\ Param(2) > 0
    /\ pre.balance[Acct(Param(1))] >= Param(2)
    /\ IsFatal("Other")

RoleChangeByStranger ==
    /\ Dispatched("transferOwnership") \/ Dispatched("setController")
    /\ Acct(Caller) # pre.owner

\* C6 as stated: every transferOwnership or setController call whose caller
\* is not the stored owner ends Fatal(Other) and leaves the owner, the
\* controller, all balances and all allowances unchanged.
C6_NonOwnerIsFatal ==
    RoleChangeByStranger => (IsFatal("Other") /\ state = pre)

\* C6 (amended): every non-static transferOwnership or setController call
\* whose caller is not the stored owner ends Fatal(Other) and leaves the
\* owner, the controller, all balances and all allowances unchanged.
C6_NonStaticNonOwnerIsFatal ==
    (RoleChangeByStranger /\ ~call.is_static) => (IsFatal("Other") /\ state = pre)

\* C6's case: a non-static setController from the controller, who is not the
\* owner, with enough gas and a well-formed new controller, has ended
\* Fatal(Other).
C6_Witness ==
    /\ Dispatched("setController")
    /\ Acct(Caller) # pre.owner
    /\ Acct(Caller) = pre.controller
    /\ ~call.is_static
    /\ call.target_gas >= 3155
    /\ WellFormed(<<"address">>)
    /\ Acct(Param(1)) # pre.controller
    /\ IsFatal("Other")

(***************************************************************************)
(* Static context                                                          *)
(***************************************************************************)
\* The cost a static call of a mutating method reports.
StaticRevertCost(m) ==
    CASE m = "transfer" -> 18446
      [] m = "transferFrom" -> 18190
      [] m = "approve" -> 18599
      [] OTHER -> 3155

\* C7: a call of one of the seven mutating methods with is_static = true ends
\* Revert(Reverted) with the method's fixed gas cost (18446, 18190, 18599,
\* 3155, 3155, 3155, 3155) and a 32-byte all-zero output, and changes
\* nothing, whatever the gas limit, the caller and the parameters are.
C7_StaticMutatingReverts ==
    \A m \in MutatingMethods :
        (Dispatched(m) /\ call.is_static)
            => /\ IsRevert
               /\ err.cost = StaticRevertCost(m)
               /\ err.output = [i \in 1..32 |-> 0]
               /\ state = pre
               /\ NoLog

\* C7's case: a static approve with too little gas has reverted with the
\* cost of approve.
C7_Witness ==
    /\ Dispatched("approve")
    /\ call.is_static
    /\ call.target_gas < 18599
    /\ IsRevert
    /\ err.cost = 18599

(***************************************************************************)
(* transfer                                                                *)
(***************************************************************************)
\* The Transfer log of a transfer of amt from address `from` to address `to`.
TransferLog(from, to, amt) ==
    [address |-> call.context.address,
     topics |-> <<"event_hex_string_transfer", to_h256(from), to_h256(to)>>,
     data |-> to_bytes(amt)]

\* What every successful transfer(to, amt) by the caller shows: the sum of
\* the two balances is kept, exactly one Transfer log with topics
\* [signature, caller, to] and data amt, and a 32-byte output ending in 1.
TransferSuccessShape(to, amt) ==
    /\ state.balance[Acct(Caller)] + state.balance[Acct(to)]
           = pre.balance[Acct(Caller)] + pre.balance[Acct(to)]
    /\ output.logs = <<TransferLog(Caller, to, amt)>>
    /\ Len(output.output) = 32
    /\ output.output[32] = 1

\* C8 as stated: a successful transfer(to, amt) decreases the caller's
\* balance by exactly amt and increases to's balance by exactly amt, keeps
\* the sum of the two balances, emits exactly one Transfer log with topics
\* [signature, caller, to] and data amt, and returns a 32-byte word whose
\* last byte is 1.
C8_TransferMovesAmount ==
    (Dispatched("transfer") /\ IsSuccess) =>
        LET to == Param(1)
            amt == Param(2)
        IN  /\ state.balance[Acct(Caller)] = pre.balance[Acct(Caller)] - amt
            /\ state.balance[Acct(to)] = pre.balance[Acct(to)] + amt
            /\ TransferSuccessShape(to, amt)

\* C8 (amended): a successful transfer(to, amt) to an address other than the
\* caller decreases the caller's balance by exactly amt and increases to's
\* balance by exactly amt; every successful transfer keeps the sum of the two
\* balances, emits exactly one Transfer log with topics [signature, caller,
\* to] and data amt, and returns a 32-byte word whose last byte is 1.
C8_TransferToOtherMovesAmount ==
    (Dispatched("transfer") /\ IsSuccess) =>
        LET to == Param(1)
            amt == Param(2)
        IN  /\ to # Caller =>
                  /\ state.balance[Acct(Caller)] = pre.balance[Acct(Caller)] - amt
                  /\ state.balance[Acct(to)] = pre.balance[Acct(to)] + amt
            /\ TransferSuccessShape(to, amt)

\* C8's case: a transfer of a non-zero amount to another address, from a
\* caller who keeps some balance, has succeeded.
C8_Witness ==
    /\ Dispatched("transfer")
    /\ IsSuccess
    /\ Param(1) # Caller
    /\ Param(2) > 0
    /\ pre.balance[Acct(Caller)] > Param(2)

\* C9: a non-static transfer(to, amt) with enough gas and well-formed
\* parameters whose caller holds less than amt ends Revert(Reverted) with
\* cost 3662 and a 32-byte all-zero output, emits no log, and leaves the
\* caller's and the recipient's balance unchanged.
C9_TransferInsufficientBalance ==
    (/\ Dispatched("transfer")
     /\ ~call.is_static
     /\ call.target_gas >= 18446
     /\ WellFormed(<<"address", "uint256">>)
     /\ pre.balance[Acct(Caller)] < Param(2))
        => /\ IsRevert
           /\ err.cost = 3662
           /\ err.output = [i \in 1..32 |-> 0]
           /\ NoLog
           /\ state.balance[Acct(Caller)] = pre.balance[Acct(Caller)]
           /\ state.balance[Acct(Param(1))] = pre.balance[Acct(Param(1))]

\* C9's case: the caller holds something, but less than the amount, and the
\* transfer has reverted.
C9_Witness ==
    /\ Dispatched("transfer")
    /\ ~call.is_static
    /\ call.target_gas >= 18446
    /\ WellFormed(<<"address", "uint256">>)
    /\ pre.balance[Acct(Caller)] > 0
    /\ pre.balance[Acct(Caller)] < Param(2)
    /\ Param(1) # Caller
    /\ IsRevert

(***************************************************************************)
(* approve                                                                 *)
(***************************************************************************)
\* The outcome of allowance(o, s) called on the ledger st with enough gas.
AllowanceCall(st, o, s) ==
    exec_allowance(st, call.context, FALSE, 3987, <<o, s>>, FALSE)

\* C10: approve sets the allowance absolutely: after a successful
\* approve(spender, amt) by caller c, whatever allowance(c, spender) was, a
\* following allowance(c, spender) call returns exactly amt, and no other
\* (owner, spender) allowance has changed.
C10_ApproveIsAbsolute ==
    (Dispatched("approve") /\ output.exit_status = "Returned") =>
        LET spender == Param(1)
            amt == Param(2)
            read == AllowanceCall(state, Caller, spender)
        IN  /\ read.ret = TRUE
            /\ read.output.exit_status = "Returned"
            /\ read.output.output = to_bytes(amt)
            /\ \A o, sp \in Accounts :
                  <<o, sp>> # <<Acct(Caller), Acct(spender)>>
                      => state.allowance[o][sp] = pre.allowance[o][sp]

\* C10's case: an approve of a non-zero amount over a different allowance that
\* was not zero has succeeded.
C10_Witness ==
    /\ Dispatched("approve")
    /\ output.exit_status = "Returned"
    /\ pre.allowance[Acct(Caller)][Acct(Param(1))] > 0
    /\ Param(2) > 0
    /\ Param(2) # pre.allowance[Acct(Caller)][Acct(Param(1))]

(***************************************************************************)
(* Roles across calls                                                      *)
(***************************************************************************)
OwnerPrivilegedCall == Dispatched("transferOwnership") \/ Dispatched("setController")
ControllerPrivilegedCall == Dispatched("mint") \/ Dispatched("burnFrom")

\* The stored owner changes only in a successful transferOwnership by the
\* owner, the stored controller only in a successful setController by the
\* owner, and a mint or burnFrom changes a balance only when the controller
\* issued it.
RolesChangeByHolderOnly ==
    /\ state.owner # pre.owner
          => (Dispatched("transferOwnership") /\ IsSuccess /\ Acct(Caller) = pre.owner)
    /\ state.controller # pre.controller
          => (Dispatched("setController") /\ IsSuccess /\ Acct(Caller) = pre.owner)
    /\ (ControllerPrivilegedCall /\ state.balance # pre.balance)
          => Acct(Caller) = pre.controller

\* The last call is a privileged call of the account that held the role
\* before the role was last reassigned, and that no longer holds it.
ByPreviousOwner ==
    OwnerPrivilegedCall /\ Acct(Caller) = former.owner /\ Acct(Caller) # pre.owner
ByPreviousController ==
    /\ ControllerPrivilegedCall
    /\ Acct(Caller) = former.controller
    /\ Acct(Caller) # pre.controller

\* After a reassignment, a non-static privileged call of the new holder with
\* enough gas and well-formed parameters passes the role check: it does not
\* end Fatal, and it succeeds unless it is a burnFrom or its write fails.
NewHolderAccepted ==
    /\ (/\ OwnerPrivilegedCall
        /\ former.owner # no_account
        /\ Acct(Caller) = pre.owner
        /\ ~call.is_static
        /\ call.target_gas >= 3155
        /\ WellFormed(<<"address">>))
          => /\ err.fail_status # "Fatal"
             /\ ~call.wfail => IsSuccess
    /\ (/\ ControllerPrivilegedCall
        /\ former.controller # no_account
        /\ Acct(Caller) = pre.controller
        /\ ~call.is_static
        /\ call.target_gas >= 3155
        /\ WellFormed(<<"address", "uint256">>))
          => /\ err.fail_status # "Fatal"
             /\ Dispatched("mint") => IsSuccess

\* C11 as stated: across any sequence of calls the stored owner changes only
\* in a successful transferOwnership by the owner of that moment, the stored
\* controller only in a successful setController by the owner of that moment,
\* a mint or burnFrom changes a balance only when the controller of that
\* moment issued it; after a role is reassigned every privileged call of the
\* previous holder ends Fatal(Other) and the new holder's calls are accepted.
C11_RolesFollowReassignment ==
    /\ RolesChangeByHolderOnly
    /\ (ByPreviousOwner \/ ByPreviousController) => (IsFatal("Other") /\ state = pre)
    /\ NewHolderAccepted

\* C11 (amended): the same, with every non-static privileged call of the
\* previous holder ending Fatal(Other).
C11_NonStaticRolesFollowReassignment ==
    /\ RolesChangeByHolderOnly
    /\ ((ByPreviousOwner \/ ByPreviousController) /\ ~call.is_static)
          => (IsFatal("Other") /\ state = pre)
    /\ NewHolderAccepted

\* C11's case: the owner has passed the role on, and the previous owner's
\* non-static transferOwnership, with enough gas and a well-formed address,
\* has ended Fatal(Other).
C11_Witness ==
    /\ Dispatched("transferOwnership")
    /\ ByPreviousOwner
    /\ ~call.is_static
    /\ call.target_gas >= 3155
    /\ WellFormed(<<"address">>)
    /\ IsFatal("Other")

(***************************************************************************)
(* burnFrom                                                                *)
(***************************************************************************)
\* C12: no balance ever goes negative: a non-static burnFrom(account, amount)
\* by the controller, with enough gas and well-formed parameters, whose amount
\* is above account's balance ends Revert(Reverted) with a 32-byte all-zero
\* output, leaves the balance unchanged and emits no log.
C12_BurnAboveBalanceReverts ==
    /\ \A a \in Accounts : state.balance[a] >= 0
    /\ (/\ Dispatched("burnFrom")
        /\ ~call.is_static
        /\ Acct(Caller) = pre.controller
        /\ call.target_gas >= 3155
        /\ WellFormed(<<"address", "uint256">>)
        /\ Param(2) > pre.balance[Acct(Param(1))])
          => /\ IsRevert
             /\ err.output = [i \in 1..32 |-> 0]
             /\ state.balance = pre.balance
             /\ NoLog

(***************************************************************************)
(* Input parsing                                                           *)
(***************************************************************************)
\* The last call ended Fatal(minor) in the input parser: nothing of the
\* ledger changed and no log was emitted.
ParserRejects(minor) == IsFatal(minor) /\ state = pre /\ NoLog

\* C13: input parsing decides the outcome in this order, before any
\* method-specific check and without touching the ledger: an empty input ends
\* Fatal(Other); otherwise a chain tag other than the supported one ends
\* Fatal(NotSupported) whatever the remaining bytes are; otherwise a selector
\* that cannot be decoded ends Fatal(Other); otherwise a selector that is not
\* in the method table ends Fatal(NotSupported).
C13_InputParsingOrder ==
    pc = "done" =>
        /\ call.input.empty => ParserRejects("Other")
        /\ (~call.input.empty /\ call.input.chain_uuid # chain_uuid_eth)
              => ParserRejects("NotSupported")
        /\ (/\ ~call.input.empty
            /\ call.input.chain_uuid = chain_uuid_eth
            /\ ~(call.input.abi_ok /\ call.input.selector_ok))
              => ParserRejects("Other")
        /\ (/\ ~call.input.empty
            /\ call.input.chain_uuid = chain_uuid_eth
            /\ call.input.abi_ok
            /\ call.input.selector_ok
            /\ call.input.method_id \notin MethodIds)
              => ParserRejects("NotSupported")

\* C13's case: an input with an unsupported chain tag whose remaining bytes
\* cannot be decoded has ended Fatal(NotSupported).
C13_Witness ==
    /\ pc = "done"
    /\ ~call.input.empty
    /\ call.input.chain_uuid # chain_uuid_eth
    /\ ~call.input.abi_ok
    /\ IsFatal("NotSupported")

(***************************************************************************)
(* Parameter count                                                         *)
(***************************************************************************)
\* C14: on every method, decimals, owner and controller included, a call
\* whose parameter count differs from the method's arity, or whose parameters
\* do not decode, ends Fatal(Other) once the static, role and gas checks have
\* passed; no method returns Success when given surplus parameters.
C14_ArityMismatchIsFatal ==
    AnyMethod =>
        /\ (/\ ~StaticFails
            /\ ~AuthFails
            /\ ~GasFails
            /\ ~WellFormed(TypesOf(call.input.method_id)))
              => IsFatal("Other")
        /\ Len(call.input.params) > Len(TypesOf(call.input.method_id)) => ~IsSuccess

(***************************************************************************)
(* Frame of the failing outcomes                                           *)
(***************************************************************************)
\* C15: every call whose outcome is Fatal or Error leaves all balances, all
\* allowances, the stored owner and the stored controller as they were,
\* emits no log and reports no charged cost.
C15_FatalAndErrorChangeNothing ==
    (pc = "done" /\ err.fail_status \in {"Fatal", "Error"})
        => /\ state.balance = pre.balance
           /\ state.allowance = pre.allowance
           /\ state.owner = pre.owner
           /\ state.controller = pre.controller
           /\ NoLog
           /\ err.cost = 0
           /\ output.cost = 0

\* C15's case: a non-static transferFrom with enough gas, from a caller who
\* holds an allowance of the owner, whose recipient word is no address, has
\* ended Fatal(Other).
C15_Witness ==
    /\ Dispatched("transferFrom")
    /\ ~call.is_static
    /\ call.target_gas >= 18190
    /\ Len(call.input.params) = 3
    /\ Param(1) \in Addr
    /\ Param(2) \notin Addr
    /\ \E o \in Accounts : pre.allowance[o][Acct(Caller)] > 0
    /\ IsFatal("Other")

(***************************************************************************)
(* One outcome per call                                                    *)
(***************************************************************************)
\* C16: every call of execute ends with exactly one Outcome: it returns true
\* exactly when it filled the success output (status Returned) and wrote
\* nothing to the error record, and returns false exactly when it filled the
\* error record with one of Error, Revert or Fatal and wrote nothing to the
\* success output; on every path, the one where the ledger write of approve
\* fails included.
C16_ExactlyOneOutcome ==
    pc = "done" =>
        /\ ret = TRUE <=> (output.exit_status = "Returned" /\ err = fresh_err)
        /\ ret = FALSE <=> (/\ err.fail_status \in {"Error", "Revert", "Fatal"}
                            /\ output = fresh_output)

(***************************************************************************)
(* Logs                                                                    *)
(***************************************************************************)
\* The event signature of each mutating method (topic 0 of its log).
EventOf(m) ==
    CASE m \in {"transfer", "transferFrom", "mint", "burnFrom"} -> "event_hex_string_transfer"
      [] m = "approve" -> "event_hex_string_approve"
      [] m = "transferOwnership" -> "event_hex_string_ownership_transferred"
      [] m = "setController" -> "event_hex_string_controller_set"

\* The last call is a successful call of a mutating method.
MutatingSuccess == (\E m \in MutatingMethods : Dispatched(m)) /\ IsSuccess

\* C17: every call that succeeds on a mutating method appends exactly one log
\* whose first topic is the operation's event signature and whose emitting
\* address is the contract address of the call context; every call that does
\* not succeed, and every call of a read-only method, appends no log.
C17_OneLogPerMutatingSuccess ==
    pc = "done" =>
        /\ MutatingSuccess
              => /\ Len(output.logs) = 1
                 /\ output.logs[1].topics[1] = EventOf(call.input.method_id)
                 /\ output.logs[1].address = call.context.address
        /\ ~MutatingSuccess => NoLog

\* C17's case: a transferOwnership has succeeded and left one log.
C17_Witness ==
    /\ Dispatched("transferOwnership")
    /\ IsSuccess
    /\ state.owner # pre.owner
    /\ Len(output.logs) = 1

(***************************************************************************)
(* Read-only methods                                                       *)
(***************************************************************************)
\* 45257057549529550000000000000 = 0x923bc2b5c66b1c834ce2e000 as a 32-byte
\* big-endian word.
SupplyWord ==
    <<0, 0, 0, 0, 0, 0, 0, 0, 0, 0, 0, 0, 0, 0, 0, 0, 0, 0, 0, 0,
      146, 59, 194, 181, 198, 107, 28, 131, 76, 226, 224, 0>>

\* C18: totalSupply() called with no parameters and gas_limit >= 2538 returns
\* the same fixed constant (45257057549529550000000000000) in every reachable
\* ledger state, also after successful mint and burnFrom calls, and changes
\* no state.
C18_TotalSupplyIsConstant ==
    (/\ Dispatched("totalSupply")
     /\ call.target_gas >= 2538
     /\ Len(call.input.params) = 0)
        => /\ IsSuccess
           /\ output.output = SupplyWord
           /\ NoLog
           /\ state = pre

\* C18's case: totalSupply has answered on a ledger that a mint has changed.
C18_Witness ==
    /\ Dispatched("totalSupply")
    /\ IsSuccess
    /\ \E a \in Accounts : pre.balance[a] > genesis.balance[a]

\* 18 as a 32-byte big-endian word.
EighteenWord == [i \in 1..32 |-> IF i = 32 THEN 18 ELSE 0]

\* C19: decimals() returns Success with the value 18 as a 32-byte big-endian
\* word for every gas limit (0 included), every value of is_static, every
\* caller and every ledger state.
C19_DecimalsIsEighteen ==
    (Dispatched("decimals") /\ Len(call.input.params) = 0)
        => /\ IsSuccess
           /\ output.output = EighteenWord
           /\ NoLog
           /\ state = pre

\* C19's case: a static decimals() with gas limit 0 has answered on a ledger
\* that earlier calls have changed.
C19_Witness ==
    /\ Dispatched("decimals")
    /\ Len(call.input.params) = 0
    /\ call.is_static
    /\ call.target_gas = 0
    /\ pre # genesis
    /\ IsSuccess

\* An amount below 256 as a 32-byte big-endian word.
SmallWord(v) == [i \in 1..32 |-> IF i = 32 THEN v ELSE 0]

\* C20: balanceOf(a) with one well-formed address parameter and gas_limit >=
\* 3268 returns Success whose output is exactly the ledger balance of a as a
\* 32-byte word, in every reachable state (so after every earlier successful
\* transfer, transferFrom, mint and burnFrom touching a), and changes nothing.
C20_BalanceOfReadsLedger ==
    (/\ Dispatched("balanceOf")
     /\ call.target_gas >= 3268
     /\ WellFormed(<<"address">>))
        => /\ IsSuccess
           /\ Len(output.output) = 32
           /\ output.output = SmallWord(state.balance[Acct(Param(1))])
           /\ NoLog
           /\ state = pre

\* C20's case: balanceOf has answered for an account other than the caller
\* whose balance an earlier call has changed.
C20_Witness ==
    /\ Dispatched("balanceOf")
    /\ WellFormed(<<"address">>)
    /\ Param(1) # Caller
    /\ pre.balance[Acct(Param(1))] # genesis.balance[Acct(Param(1))]
    /\ pre.balance[Acct(Param(1))] # pre.balance[Acct(Caller)]
    /\ IsSuccess

(***************************************************************************)
(* Frame of the allowances                                                 *)
(***************************************************************************)
\* C21: an allowance entry (owner, spender) changes only through approve
\* called by owner with that spender, or through transferFrom called by
\* spender on that owner; transfer, mint, burnFrom, transferOwnership,
\* setController and the read-only methods leave every allowance unchanged.
C21_AllowanceChangesOnlyByApproveAndTransferFrom ==
    pc = "done" =>
        \A o, s \in Accounts :
            state.allowance[o][s] # pre.allowance[o][s]
                => \/ /\ Dispatched("approve")
                      /\ Acct(Caller) = o
                      /\ Acct(Param(1)) = s
                   \/ /\ Dispatched("transferFrom")
                      /\ Acct(Caller) = s
                      /\ Acct(Param(1)) = o

\* C21's case: a transferFrom by a spender other than the owner and the
\* recipient has succeeded and lowered the spender's allowance.
C21_Witness ==
    /\ Dispatched("transferFrom")
    /\ IsSuccess
    /\ Param(1) # Caller
    /\ Param(2) # Caller
    /\ state.allowance[Acct(Param(1))][Acct(Caller)]
           < pre.allowance[Acct(Param(1))][Acct(Caller)]

(***************************************************************************)
(* mint and burnFrom                                                       *)
(***************************************************************************)
\* The balances of `before` with `delta` added to the balance of address a.
BalancesWith(before, a, delta) ==
    [x \in Accounts |-> IF x = Acct(a) THEN before.balance[x] + delta
                        ELSE before.balance[x]]

\* C22: a successful mint(recipient, amount) by the controller increases
\* recipient's balance by exactly amount, changes no other balance, and emits
\* a Transfer log with topics [signature, zero address, recipient] and data
\* amount; a successful burnFrom(account, amount) decreases account's balance
\* by exactly amount, changes no other balance, and emits a Transfer log with
\* topics [signature, account, zero address] and data amount.
C22_MintAndBurnMoveAmount ==
    /\ (Dispatched("mint") /\ IsSuccess)
          => /\ state.balance = BalancesWith(pre, Param(1), Param(2))
             /\ output.logs = <<TransferLog(eth_zero, Param(1), Param(2))>>
    /\ (Dispatched("burnFrom") /\ IsSuccess)
          => /\ state.balance = BalancesWith(pre, Param(1), 0 - Param(2))
             /\ output.logs = <<TransferLog(Param(1), eth_zero, Param(2))>>

(***************************************************************************)
(* Outcome of the last call                                                *)
(***************************************************************************)
\* The outcome and the ledger the last call left.
Observed == [ret |-> ret, output |-> output, err |-> err, st |-> state]

\* The methods whose ledger step is a property write that reports through an
\* error_code.
PropertyWriters == {"approve", "transferOwnership", "setController"}

(***************************************************************************)
(* Failure of the ledger step                                              *)
(***************************************************************************)
\* The last call passed every check of its handler and reached the ledger.
ReachedLedger ==
    /\ AnyMethod
    /\ call.input.method_id \in MutatingMethods
    /\ ~StaticFails
    /\ ~AuthFails
    /\ ~GasFails
    /\ WellFormed(TypesOf(call.input.method_id))

\* The ledger step of the last call failed: the balance or the allowance
\* did not cover the amount, or the ledger refused the property write.
LedgerStepFails ==
    /\ ReachedLedger
    /\ \/ Dispatched("transfer") /\ pre.balance[Acct(Caller)] < Param(2)
       \/ /\ Dispatched("transferFrom")
          /\ \/ pre.allowance[Acct(Param(1))][Acct(Caller)] < Param(3)
             \/ pre.balance[Acct(Param(1))] < Param(3)
       \/ Dispatched("burnFrom") /\ pre.balance[Acct(Param(1))] < Param(2)
       \/ call.input.method_id \in PropertyWriters /\ call.wfail

\* C24: whenever the ledger step of a mutating method fails, the outcome is
\* Revert(Reverted) with a 32-byte all-zero output and no log, and its cost
\* differs from the cost the method reports on success (0) and from the
\* method's fixed gas cost; for every mutating method.
C24_LedgerFailureReverts ==
    LedgerStepFails
        => /\ err.fail_status = "Revert"
           /\ err.minor_status = "Reverted"
           /\ err.output = [i \in 1..32 |-> 0]
           /\ NoLog
           /\ err.cost # 0
           /\ err.cost # GasCostOf(call.input.method_id)

(***************************************************************************)
(* transferFrom, the successful call                                       *)
(***************************************************************************)
\* C25: a successful transferFrom(owner, recipient, amount) called by spender
\* s decreases allowance(owner, s) by exactly amount, moves exactly amount
\* from owner's balance to recipient's balance, leaves s's own balance
\* unchanged when s is neither owner nor recipient, and emits one Transfer log
\* with topics [signature, owner, recipient] (the owner, not the caller, as
\* source) and data amount.
C25_TransferFromMovesAmount ==
    (Dispatched("transferFrom") /\ IsSuccess) =>
        LET o == Param(1)
            r == Param(2)
            v == Param(3)
        IN  /\ state.allowance[Acct(o)][Acct(Caller)]
                   = pre.allowance[Acct(o)][Acct(Caller)] - v
            /\ state = BothApplied(pre, Caller, o, r, v)
            /\ o # r => /\ state.balance[Acct(o)] = pre.balance[Acct(o)] - v
                        /\ state.balance[Acct(r)] = pre.balance[Acct(r)] + v
            /\ Caller \notin {o, r}
                  => state.balance[Acct(Caller)] = pre.balance[Acct(Caller)]
            /\ output.logs = <<TransferLog(o, r, v)>>

\* C25's case: a transferFrom of a non-zero amount by a spender who is
\* neither the owner nor the recipient, to a recipient other than the owner,
\* has succeeded.
C25_Witness ==
    /\ Dispatched("transferFrom")
    /\ IsSuccess
    /\ Param(3) > 0
    /\ Param(1) # Param(2)
    /\ Caller \notin {Param(1), Param(2)}

(***************************************************************************)
(* Role changes, the successful call                                       *)
(***************************************************************************)
\* The address a (below 256) as a 32-byte left-padded word.
AddressWord(a) == [i \in 1..32 |-> IF i = 32 THEN a ELSE 0]

\* The log of a role change: the event, the old and the new holder, no data.
RoleLog(event, old_account, new) ==
    [address |-> call.context.address,
     topics |-> <<event, AddressWord(old_account[2]), AddressWord(new)>>,
     data |-> <<>>]

\* The outcome of the zero-parameter read m called after the last call.
ReadAfter(m) ==
    execute(method_input(m, <<>>), 0, call.context, FALSE, state, FALSE)

\* C26: a successful transferOwnership(newOwner) stores newOwner as owner and
\* emits OwnershipTransferred with topics [signature, owner stored before the
\* call, newOwner] and empty data; a successful setController(newController)
\* stores newController as controller, leaves the owner unchanged, and emits
\* ControllerSet with topics [signature, controller stored before the call,
\* newController] and empty data.  A following owner() / controller() call
\* returns the newly stored address as a 32-byte left-padded word.
C26_RoleChangeStoresAndLogs ==
    /\ (Dispatched("transferOwnership") /\ IsSuccess)
          => /\ state.owner = Acct(Param(1))
             /\ output.logs = <<RoleLog("event_hex_string_ownership_transferred",
                                        pre.owner, Param(1))>>
             /\ ReadAfter("owner").ret = TRUE
             /\ ReadAfter("owner").output.exit_status = "Returned"
             /\ ReadAfter("owner").output.output = AddressWord(Param(1))
    /\ (Dispatched("setController") /\ IsSuccess)
          => /\ state.controller = Acct(Param(1))
             /\ state.owner = pre.owner
             /\ output.logs = <<RoleLog("event_hex_string_controller_set",
                                        pre.controller, Param(1))>>
             /\ ReadAfter("controller").ret = TRUE
             /\ ReadAfter("controller").output.exit_status = "Returned"
             /\ ReadAfter("controller").output.output = AddressWord(Param(1))

\* C26's case: the owner has given the controller role to an address that is
\* neither the old controller nor the owner.
C26_Witness ==
    /\ Dispatched("setController")
    /\ IsSuccess
    /\ Acct(Param(1)) # pre.controller
    /\ Acct(Param(1)) # pre.owner
    /\ state.controller = Acct(Param(1))

(***************************************************************************)
(* Frame of the read-only methods                                          *)
(***************************************************************************)
ReadOnlyMethods ==
    {"decimals", "totalSupply", "balanceOf", "allowance", "owner", "controller"}

\* What the last call gives on the ledger it started from when is_static has
\* the other value.
ReplayOtherStatic ==
    execute(call.input, call.target_gas, call.context, ~call.is_static, pre, call.wfail)

\* C27: the read-only methods (decimals, totalSupply, balanceOf, allowance,
\* owner, controller) never change a balance, an allowance or a role and
\* never emit a log, and for the same input, gas and ledger state they return
\* the same outcome with is_static = true as with is_static = false.
C27_ReadOnlyMethodsAreStaticSafe ==
    \A m \in ReadOnlyMethods :
        Dispatched(m)
            => /\ state = pre
               /\ NoLog
               /\ Observed = ReplayOtherStatic

\* C27's case: a static allowance call has returned an allowance that is
\* not zero.
C27_Witness ==
    /\ Dispatched("allowance")
    /\ call.is_static
    /\ IsSuccess
    /\ output.output[32] > 0

(***************************************************************************)
(* Sum of the balances                                                     *)
(***************************************************************************)
\* The sum of all account balances of a ledger.
SumOfBalances(st) ==
    st.balance[Acct(0)] + st.balance[Acct(1)] + st.balance[Acct(2)]

\* The amount the last call minted, and the amount it burned, if it is a
\* successful mint or burnFrom.
MintedByCall == IF Dispatched("mint") /\ IsSuccess THEN Param(2) ELSE 0
BurnedByCall == IF Dispatched("burnFrom") /\ IsSuccess THEN Param(2) ELSE 0

\* C28: after any sequence of calls the sum of all account balances is the
\* initial sum plus the amounts of the successful mints minus the amounts of
\* the successful burnFroms; stated call by call: every call changes the sum
\* by the amount it minted minus the amount it burned, so transfer and
\* transferFrom (succeeding or reverting), approve, the role changes and the
\* reads never change it.
C28_SumOfBalancesFollowsMintAndBurn ==
    pc = "done" =>
        SumOfBalances(state) = SumOfBalances(pre) + MintedByCall - BurnedByCall

(***************************************************************************)
(* Reported cost                                                           *)
(***************************************************************************)
\* C29: every Success outcome reports cost 0, for every method, those with a
\* non-zero gas table entry included; a non-zero cost is reported only in
\* Revert outcomes.
C29_OnlyRevertsReportCost ==
    pc = "done" =>
        /\ output.exit_status = "Returned" => output.cost = 0
        /\ (output.cost # 0 \/ err.cost # 0)
              => (err.fail_status = "Revert" /\ err.cost # 0 /\ output.cost = 0)

\* C29's case: a transfer of a non-zero amount, whose gas table entry is
\* 18446, has succeeded with cost 0.
C29_Witness ==
    /\ Dispatched("transfer")
    /\ IsSuccess
    /\ Param(2) > 0
    /\ call.target_gas >= 18446
    /\ output.cost = 0

====
